---------------------------- MODULE Spec2Model ----------------------------
(***************************************************************************)
(* A model of the turtle_graphics package: the Turtle with its instruction  *)
(* list and position stack (turtle_graphics.go), the bounds-measuring       *)
(* DummyCanvas (turtle_graphics.go) and the rasterizing RGBACanvas           *)
(* (rgba canvas file).                                                       *)
(*                                                                           *)
(* Numbers.  The program computes in float64.  The model computes in fixed  *)
(* point: every coordinate, distance and radius is an integer number of     *)
(* thousandths of a canvas unit, every angle an integer number of degrees   *)
(* (or a fraction num/den of degrees inside RGBACanvas.DrawArc).  Rounding  *)
(* error of float64 (about 1e-16 relative) is therefore not represented;    *)
(* the sign conventions of math.Mod and of the float64 -> int conversion,   *)
(* which the program's behaviour depends on, are.                           *)
(***************************************************************************)
EXTENDS Integers, Sequences, FiniteSets, TLC

VARIABLES
    instructions,   \* Turtle.instructions
    position,       \* Turtle.position: [x, y, angle]
    positionStack,  \* Turtle.positionStack
    pc,             \* where the caller of the Turtle is: "idle", "running"
                    \* (inside RenderToCanvas) or "returned"
    idx,            \* RenderToCanvas: 1-based index of the next instruction
    canvas,         \* the Canvas passed to RenderToCanvas
    calls,          \* the calls that Canvas has received during this replay
    err,            \* the error RenderToCanvas returned
    entry,          \* pose and stack RenderToCanvas found on entry
    trace,          \* pose and stack after each instruction of this replay
    rgba,           \* an RGBACanvas, as NewRGBACanvas returned it and as the
                    \* calls made on it since have left it
    newArgs,        \* the arguments of that call of NewRGBACanvas
    plots,          \* the points the last draw call on rgba converted with
                    \* PointToPixel and passed to pic.Set, with their pixels
    draws,          \* the number of draw calls made on rgba
    line            \* a call of drawLine: its arguments and local variables,
                    \* the picture, the pixels it has passed to pic.Set and
                    \* where it stands (idle, in the loop, done)

turtleVars == <<instructions, position, positionStack, pc, idx, canvas,
                calls, err, entry, trace>>

rgbaVars == <<rgba, newArgs, plots, draws>>

lineVars == <<line>>

vars == <<instructions, position, positionStack, pc, idx, canvas, calls,
          err, entry, trace, rgba, newArgs, plots, draws, line>>

-----------------------------------------------------------------------------
(* Bounds of the model and program constants. *)

\* the longest instruction list a Turtle is given
MaxInstr == 3

\* a faulty Canvas rejects its k-th call, k in 1..MaxFail
MaxFail == 2

\* the largest pixelsWide and pixelsTall an RGBACanvas is made with (besides
\* the tester's)
MaxPixels == 2

\* the number of draw calls made on one RGBACanvas
MaxDraws == 1

\* the number of draw calls given to a DummyCanvas and an RGBACanvas together
MaxBoxCalls == 2

\* the pixel coordinates drawLine is given lie in -MaxCoord .. MaxCoord, and
\* its picture is MaxCoord pixels wide and tall
MaxCoord == 3

\* simple_tester: height := 1000
TesterHeight == 1000

\* color.Black, the style a new RGBACanvas draws with
Black == 0

\* color.White, the background the tester gives its canvases
White == 1

\* thousandths per canvas unit: the fixed-point scale, and the 0.001 of
\* GetExtents
Milli == 1000

FullTurn == 360

QuarterTurn == 90

HalfTurn == 180

-----------------------------------------------------------------------------
(* Arithmetic of the host language. *)

Abs(n) == IF n >= 0 THEN n ELSE -n

\* a * b / q for a, b >= 0 and q > 0 as whole part k and remainder r (the
\* quotient is k + r / q), computed digit by digit of b so that no
\* intermediate value leaves the 32-bit integers of TLC
MulDivDigit(prev, a, d, q) ==
    [k |-> 10 * prev.k + (a \div q) * d + (10 * prev.r + (a % q) * d) \div q,
     r |-> (10 * prev.r + (a % q) * d) % q]

RECURSIVE MulDivParts(_, _, _)
MulDivParts(a, b, q) ==
    IF b = 0 THEN [k |-> 0, r |-> 0]
    ELSE CHOOSE next \in {MulDivDigit(prev, a, b % 10, q) :
                             prev \in {MulDivParts(a, b \div 10, q)}} : TRUE

\* float64 -> int conversion of a * b / q: truncation toward zero
TruncMulDiv(a, b, q) ==
    LET whole == MulDivParts(Abs(a), Abs(b), Abs(q)).k
    IN IF ((a >= 0) = (b >= 0)) = (q > 0) THEN whole ELSE -whole

\* float64 -> int conversion and fixed-point division: truncation toward zero
TruncDiv(a, b) ==
    IF (a >= 0) = (b > 0) THEN Abs(a) \div Abs(b) ELSE -(Abs(a) \div Abs(b))

\* math.Mod: the remainder has the sign of the dividend
GoMod(a, m) == IF a >= 0 THEN a % m ELSE -((-a) % m)

\* math.Sin of num/den degrees (den > 0), in thousandths.  Bhaskara's rational
\* approximation on [0, 180], exact at the multiples of 90, odd and periodic.
SinHalf(n, d) ==
    LET p == n * (HalfTurn * d - n)
    IN IF d = 1 THEN (4 * Milli * p) \div (40500 - p)
       ELSE MulDivParts(p, 4 * Milli, 40500 * d * d - p).k

SinMilli(num, den) ==
    LET a == num % (FullTurn * den)
    IN IF a <= HalfTurn * den THEN SinHalf(a, den)
       ELSE -SinHalf(a - HalfTurn * den, den)

CosMilli(num, den) == SinMilli(num + QuarterTurn * den, den)

\* moveDegrees for an angle of num/den degrees
moveDegreesFrac(x, y, num, den, distance) ==
    <<x + TruncDiv(CosMilli(num, den) * distance, Milli),
      y + TruncDiv(SinMilli(num, den) * distance, Milli)>>

moveDegrees(x, y, angle, distance) == moveDegreesFrac(x, y, angle, 1, distance)

-----------------------------------------------------------------------------
(* The arguments the callers of the model give. *)

Distances == {1 * Milli}
TurnDegrees == {90, -90, 300}
Styles == {Black, White}
TurtleStyles == {White}
Arcs == {<<1 * Milli, 360>>, <<-1 * Milli, 360>>, <<1 * Milli, -90>>}

\* the arguments given to NewRGBACanvas
PixelCounts == -1 .. MaxPixels
RectMins == {0}
RectMaxs == {-4 * Milli, 0, 4 * Milli}
Backgrounds == {White}

\* the pixel sizes a canvas sized from GetExtents is made with
PixelSizes == (1 .. MaxPixels) \cup {TesterHeight}

\* the arguments given to RGBACanvas.DrawLine and DrawArc
DrawCoords == {-1 * Milli, 1 * Milli, 5 * Milli}
LineAngles == {0, 90, 180, -90}
LineLengths == {2 * Milli}
ArcAngles == {0, 90}
ArcRadii == {1 * Milli, -1 * Milli}
ArcDegrees == {360, -90}

\* the arguments of the draw calls given to a DummyCanvas and an RGBACanvas
\* together, and the pixel size of that RGBACanvas, made for [0, 2] x [0, 2]
BoxStarts == {<<-3 * Milli, -3 * Milli>>, <<1 * Milli, 1 * Milli>>}
BoxArcRadii == {1 * Milli, -2 * Milli}
BoxArcDegrees == {360, 90, -90, 450}
BoxPixels == {1}
BoxRectMaxs == {2 * Milli}

Instr(op, a, b) == [op |-> op, a |-> a, b |-> b]

Call(op, p, a, b) ==
    [op |-> op, x |-> p.x, y |-> p.y, angle |-> p.angle, a |-> a, b |-> b]

ZeroPosition == [x |-> 0, y |-> 0, angle |-> 0]

-----------------------------------------------------------------------------
(* DummyCanvas. *)

NewDummyCanvas ==
    [kind |-> "dummy", failAt |-> 0, minX |-> 0, maxX |-> 0, minY |-> 0,
     maxY |-> 0, initialized |-> FALSE]

\* an updateBounds without the initialized flag: the zeros of NewDummyCanvas
\* count as an observed point
updateBoundsFromZero(c, x, y) ==
    [c EXCEPT !.minX = IF x < c.minX THEN x ELSE c.minX,
              !.maxX = IF x > c.maxX THEN x ELSE c.maxX,
              !.minY = IF y < c.minY THEN y ELSE c.minY,
              !.maxY = IF y > c.maxY THEN y ELSE c.maxY,
              !.initialized = TRUE]

updateBounds(c, x, y) ==
    IF ~c.initialized
    THEN [c EXCEPT !.minX = x, !.maxX = x, !.minY = y, !.maxY = y,
                   !.initialized = TRUE]
    ELSE [c EXCEPT !.minX = IF x < c.minX THEN x ELSE c.minX,
                   !.maxX = IF x > c.maxX THEN x ELSE c.maxX,
                   !.minY = IF y < c.minY THEN y ELSE c.minY,
                   !.maxY = IF y > c.maxY THEN y ELSE c.maxY]

DummyDrawLine(c, x, y, angle, distance) ==
    LET end == moveDegrees(x, y, angle, distance)
    IN updateBounds(updateBounds(c, x, y), end[1], end[2])

DummyDrawArc(c, x, y, angle, radius, degrees) ==
    LET center == moveDegrees(x, y, angle + QuarterTurn, radius)
        c1 == updateBounds(c, center[1], center[2] + radius)
        c2 == updateBounds(c1, center[1], center[2] - radius)
        c3 == updateBounds(c2, center[1] + radius, center[2])
    IN updateBounds(c3, center[1] - radius, center[2])

\* a GetExtents that returns the accumulated box without widening it
GetExtentsRawBox(c) ==
    [minX |-> Milli * c.minX, minY |-> Milli * c.minY,
     maxX |-> Milli * c.maxX, maxY |-> Milli * c.maxY]

\* GetExtents.  The canvas holds thousandths of a unit; the result is in
\* thousandths of those, so that the tolerance, 0.001 of the span, is exact.
GetExtents(c) ==
    LET xTolerance == c.maxX - c.minX
        yTolerance == c.maxY - c.minY
    IN [minX |-> Milli * c.minX - xTolerance,
        minY |-> Milli * c.minY - yTolerance,
        maxX |-> Milli * c.maxX + xTolerance,
        maxY |-> Milli * c.maxY + yTolerance]

-----------------------------------------------------------------------------
(* RGBACanvas. *)

\* a fraction num/den as <<num, den>>
FracPositive(f) == f[1] * f[2] > 0

BufferPixels(pixelsWide, pixelsTall) ==
    (0 .. (pixelsWide - 1)) \X (0 .. (pixelsTall - 1))

\* the nil canvas NewRGBACanvas returns with an error
NilCanvas ==
    [ok |-> FALSE, style |-> Black, pic |-> [px \in {} |-> Black],
     pixelsWide |-> 0, pixelsTall |-> 0, minX |-> 0, maxX |-> 0, minY |-> 0,
     maxY |-> 0, dX |-> <<0, 1>>, dY |-> <<0, 1>>]

\* a constructor that lets an empty range through: it rejects a range only
\* when its maximum is below its minimum
NewRGBACanvasAllowsEmptyRange(pixelsWide, pixelsTall, minX, minY, maxX, maxY, background) ==
    IF pixelsWide <= 0 THEN NilCanvas
    ELSE IF pixelsTall <= 0 THEN NilCanvas
    ELSE IF maxX < minX THEN NilCanvas
    ELSE IF maxY < minY THEN NilCanvas
    ELSE [ok |-> TRUE, style |-> Black,
          pic |-> [px \in BufferPixels(pixelsWide, pixelsTall) |-> background],
          pixelsWide |-> pixelsWide, pixelsTall |-> pixelsTall,
          minX |-> minX, maxX |-> maxX, minY |-> minY, maxY |-> maxY,
          dX |-> <<maxX - minX, pixelsWide>>,
          dY |-> <<maxY - minY, pixelsTall>>]

NewRGBACanvas(pixelsWide, pixelsTall, minX, minY, maxX, maxY, background) ==
    IF pixelsWide <= 0 THEN NilCanvas
    ELSE IF pixelsTall <= 0 THEN NilCanvas
    ELSE IF maxX <= minX THEN NilCanvas
    ELSE IF maxY <= minY THEN NilCanvas
    ELSE [ok |-> TRUE, style |-> Black,
          pic |-> [px \in BufferPixels(pixelsWide, pixelsTall) |-> background],
          pixelsWide |-> pixelsWide, pixelsTall |-> pixelsTall,
          minX |-> minX, maxX |-> maxX, minY |-> minY, maxY |-> maxY,
          dX |-> <<maxX - minX, pixelsWide>>,
          dY |-> <<maxY - minY, pixelsTall>>]

RGBASetStyle(c, s) == [c EXCEPT !.style = s]

\* image.RGBA.Set: a pixel outside the image's rectangle is left alone
picSet(pic, x, y, colour) ==
    IF <<x, y>> \in DOMAIN pic THEN [pic EXCEPT ![<<x, y>>] = colour] ELSE pic

\* drawLine: the picture it leaves and the pixels it passed to pic.Set, in
\* order
drawLine(x0, y0, x1, y1, pic, style) ==
    LET dx == Abs(x1 - x0)
        sx == IF x0 >= x1 THEN -1 ELSE 1
        dy == Abs(y1 - y0)
        sy == IF y0 >= y1 THEN -1 ELSE 1
        start == IF dx <= dy THEN TruncDiv(-dy, 2) ELSE TruncDiv(dx, 2)
        RECURSIVE loop(_, _, _, _, _)
        loop(x, y, e, img, seen) ==
            LET img1 == picSet(img, x, y, style)
                seen1 == Append(seen, <<x, y>>)
                e2 == e
                stepX == e2 > -dx
                stepY == e2 < dy
            IN IF x = x1 /\ y = y1 THEN [pic |-> img1, pixels |-> seen1]
               ELSE loop(IF stepX THEN x + sx ELSE x,
                         IF stepY THEN y + sy ELSE y,
                         (IF stepX THEN e - dy ELSE e)
                             + (IF stepY THEN dx ELSE 0),
                         img1, seen1)
    IN loop(x0, y0, start, pic, <<>>)

\* drawLine up to its loop: the arguments, the locals and an untouched list of
\* the pixels passed to pic.Set
drawLineEnter(x0, y0, x1, y1, pic, style) ==
    [pc |-> "loop", fromX |-> x0, fromY |-> y0, x0 |-> x0, y0 |-> y0,
     x1 |-> x1, y1 |-> y1, pic |-> pic, style |-> style,
     dx |-> Abs(x1 - x0), sx |-> IF x0 >= x1 THEN -1 ELSE 1,
     dy |-> Abs(y1 - y0), sy |-> IF y0 >= y1 THEN -1 ELSE 1,
     err |-> IF Abs(x1 - x0) <= Abs(y1 - y0)
             THEN TruncDiv(-Abs(y1 - y0), 2)
             ELSE TruncDiv(Abs(x1 - x0), 2),
     pixels |-> <<>>]

\* a loop that tests for the end point before it sets the pixel
drawLineLoopTestsFirst(l) ==
    IF l.x0 = l.x1 /\ l.y0 = l.y1 THEN [l EXCEPT !.pc = "done"]
    ELSE [l EXCEPT !.pic = picSet(l.pic, l.x0, l.y0, l.style),
                   !.pixels = Append(l.pixels, <<l.x0, l.y0>>),
                   !.err = (IF l.err > -l.dx THEN l.err - l.dy ELSE l.err)
                               + (IF l.err < l.dy THEN l.dx ELSE 0),
                   !.x0 = IF l.err > -l.dx THEN l.x0 + l.sx ELSE l.x0,
                   !.y0 = IF l.err < l.dy THEN l.y0 + l.sy ELSE l.y0]

\* drawLine, one turn of its loop
drawLineLoop(l) ==
    IF l.x0 = l.x1 /\ l.y0 = l.y1
    THEN [l EXCEPT !.pic = picSet(l.pic, l.x0, l.y0, l.style),
                   !.pixels = Append(l.pixels, <<l.x0, l.y0>>),
                   !.pc = "done"]
    ELSE [l EXCEPT !.pic = picSet(l.pic, l.x0, l.y0, l.style),
                   !.pixels = Append(l.pixels, <<l.x0, l.y0>>),
                   !.err = (IF l.err > -l.dx THEN l.err - l.dy ELSE l.err)
                               + (IF l.err < l.dy THEN l.dx ELSE 0),
                   !.x0 = IF l.err > -l.dx THEN l.x0 + l.sx ELSE l.x0,
                   !.y0 = IF l.err < l.dy THEN l.y0 + l.sy ELSE l.y0]

\* no call of drawLine under way
IdleLine ==
    [drawLineEnter(0, 0, 0, 0, [px \in BufferPixels(MaxCoord, MaxCoord) |-> White],
                   Black)
     EXCEPT !.pc = "idle"]

PointToPixel(c, x, y) ==
    LET yMax == c.pixelsTall - 1
        pixelsX == TruncMulDiv(x - c.minX, c.dX[2], c.dX[1])
        pixelsY == TruncMulDiv(y - c.minY, c.dY[2], c.dY[1])
    IN <<pixelsX, yMax - pixelsY>>

Plot(c, x, y) ==
    LET px == PointToPixel(c, x, y)
    IN [x |-> x, y |-> y, px |-> px[1], py |-> px[2]]

\* RGBACanvas.DrawLine: the canvas it leaves and the two end points it
\* converted
RGBADrawLine(c, x, y, angle, length) ==
    LET p0 == PointToPixel(c, x, y)
        new == moveDegrees(x, y, angle, length)
        p1 == PointToPixel(c, new[1], new[2])
        drawn == drawLine(p0[1], p0[2], p1[1], p1[2], c.pic, c.style)
    IN [canvas |-> [c EXCEPT !.pic = drawn.pic],
        plots |-> <<Plot(c, x, y), Plot(c, new[1], new[2])>>]

\* a fold that mirrors a negative angle instead of adding it to a full turn
arcDegreesMirrored(degrees) ==
    LET folded == IF degrees < 0 THEN -degrees ELSE degrees
    IN IF folded > FullTurn THEN FullTurn ELSE folded

\* RGBACanvas.DrawArc, the degrees after the fold and the clamp
arcDegrees(degrees) ==
    LET folded == IF degrees < 0 THEN FullTurn - degrees ELSE degrees
    IN IF folded > FullTurn THEN FullTurn ELSE folded

\* RGBACanvas.DrawArc, the number of samples
arcSampleCount(c, radius) ==
    LET absRadius == IF radius < 0 THEN -radius ELSE radius
        radiusPixelsX == TruncMulDiv(absRadius, c.dX[2], c.dX[1]) + 1
        radiusPixelsY == TruncMulDiv(absRadius, c.dY[2], c.dY[1]) + 1
    IN IF radiusPixelsX >= radiusPixelsY
       THEN radiusPixelsX * 7 ELSE radiusPixelsY * 7

\* RGBACanvas.DrawArc, sample i of n: the point at (angle - 90) + i * dA
\* degrees from the centre, dA = degrees / n, kept as a fraction over n
arcSample(center, angle, radius, deg, n, i) ==
    moveDegreesFrac(center[1], center[2],
                    (angle - QuarterTurn) * n + i * deg, n, radius)

\* RGBACanvas.DrawArc, the loop's effect on the picture: every sample's pixel
\* that lies in the image has been set to the one style of the call
arcPaint(c, seen) ==
    [canvas |-> [c EXCEPT !.pic =
                    [px \in DOMAIN c.pic |->
                        IF \E i \in DOMAIN seen : <<seen[i].px, seen[i].py>> = px
                        THEN c.style ELSE c.pic[px]]],
     plots |-> seen]

\* RGBACanvas.DrawArc, one turn of the loop: the sample and its pixel
arcPlot(c, at) == Plot(c, at[1], at[2])

\* RGBACanvas.DrawArc, the loop: n samples around the centre, each converted
\* and set
arcLoop(c, center, angle, radius, deg, n) ==
    arcPaint(c, [i \in 1 .. n |->
                    arcPlot(c, arcSample(center, angle, radius, deg, n, i - 1))])

\* RGBACanvas.DrawArc: the canvas it leaves and the samples it converted, in
\* order
RGBADrawArc(c, x, y, angle, radius, degrees) ==
    arcLoop(c, moveDegrees(x, y, angle + QuarterTurn, radius), angle, radius,
            arcDegrees(degrees), arcSampleCount(c, radius))

-----------------------------------------------------------------------------
(* The Canvas interface, as the Turtle sees it. *)

\* A Canvas is any implementation of the interface, and each method may return
\* an error.  A DummyCanvas never does.  A faulty canvas stands for an
\* implementation that does: it returns an error from the failAt-th call it
\* receives and keeps no state of its own.
FaultyCanvas(k) == [NewDummyCanvas EXCEPT !.kind = "faulty", !.failAt = k]

Canvases == {NewDummyCanvas} \cup {FaultyCanvas(k) : k \in 1 .. MaxFail}

CanvasAccepts(c, log) == c.failAt # Len(log) + 1

CanvasSetStyle(c, log, style) == [canvas |-> c, ok |-> CanvasAccepts(c, log)]

CanvasDrawLine(c, log, x, y, angle, length) ==
    [canvas |-> IF c.kind = "dummy" THEN DummyDrawLine(c, x, y, angle, length)
                ELSE c,
     ok |-> CanvasAccepts(c, log)]

CanvasDrawArc(c, log, x, y, angle, radius, degrees) ==
    [canvas |-> IF c.kind = "dummy"
                THEN DummyDrawArc(c, x, y, angle, radius, degrees)
                ELSE c,
     ok |-> CanvasAccepts(c, log)]

-----------------------------------------------------------------------------
(* Instructions. *)

\* what an apply method leaves behind: the turtle, the canvas, the calls the
\* canvas has received and whether apply returned nil
Applied(p, s, c, log, ok, kind) ==
    [position |-> p, positionStack |-> s, canvas |-> c, calls |-> log,
     ok |-> ok, kind |-> kind]

\* mutant: the line is drawn from the pose the turtle moves to
moveForwardDrawsAfterMoving(p, s, c, log, distance) ==
    LET to == moveDegrees(p.x, p.y, p.angle, distance)
        moved == [p EXCEPT !.x = to[1], !.y = to[2]]
        e == CanvasDrawLine(c, log, moved.x, moved.y, moved.angle, distance)
        issued == Append(log, Call("DrawLine", moved, distance, 0))
    IN IF ~e.ok THEN Applied(p, s, e.canvas, issued, FALSE, "canvas")
       ELSE Applied(moved, s, e.canvas, issued, TRUE, "none")

moveForwardApply(p, s, c, log, distance) ==
    LET e == CanvasDrawLine(c, log, p.x, p.y, p.angle, distance)
        issued == Append(log, Call("DrawLine", p, distance, 0))
        to == moveDegrees(p.x, p.y, p.angle, distance)
    IN IF ~e.ok THEN Applied(p, s, e.canvas, issued, FALSE, "canvas")
       ELSE Applied([p EXCEPT !.x = to[1], !.y = to[2]], s, e.canvas, issued,
                    TRUE, "none")

\* mutant: the heading is set to the turn, not advanced by it
turnSetsHeading(p, s, c, log, degrees) ==
    Applied([p EXCEPT !.angle = GoMod(degrees, FullTurn)], s, c, log, TRUE,
            "none")

turnApply(p, s, c, log, degrees) ==
    Applied([p EXCEPT !.angle = GoMod(degrees + p.angle, FullTurn)], s, c,
            log, TRUE, "none")

setStyleApply(p, s, c, log, style) ==
    LET e == CanvasSetStyle(c, log, style)
        issued == Append(log, Call("SetStyle", ZeroPosition, style, 0))
    IN Applied(p, s, e.canvas, issued, e.ok,
               IF e.ok THEN "none" ELSE "canvas")

\* mutant: the turtle's place on the circle is taken a half turn off
moveArcWrongQuadrant(p, s, c, log, radius, degrees) ==
    LET e == CanvasDrawArc(c, log, p.x, p.y, p.angle, radius, degrees)
        issued == Append(log, Call("DrawArc", p, radius, degrees))
        center == moveDegrees(p.x, p.y, p.angle + QuarterTurn, radius)
        to == moveDegrees(center[1], center[2],
                          degrees + (p.angle + QuarterTurn), radius)
    IN IF ~e.ok THEN Applied(p, s, e.canvas, issued, FALSE, "canvas")
       ELSE Applied([x |-> to[1], y |-> to[2],
                     angle |-> GoMod(p.angle + degrees, FullTurn)],
                    s, e.canvas, issued, TRUE, "none")

moveArcApply(p, s, c, log, radius, degrees) ==
    LET e == CanvasDrawArc(c, log, p.x, p.y, p.angle, radius, degrees)
        issued == Append(log, Call("DrawArc", p, radius, degrees))
        center == moveDegrees(p.x, p.y, p.angle + QuarterTurn, radius)
        to == moveDegrees(center[1], center[2],
                          degrees + (p.angle - QuarterTurn), radius)
    IN IF ~e.ok THEN Applied(p, s, e.canvas, issued, FALSE, "canvas")
       ELSE Applied([x |-> to[1], y |-> to[2],
                     angle |-> GoMod(p.angle + degrees, FullTurn)],
                    s, e.canvas, issued, TRUE, "none")

pushPositionApply(p, s, c, log) ==
    Applied(p, Append(s, p), c, log, TRUE, "none")

\* mutant: a pop on an empty stack is ignored
popPositionIgnoresEmpty(p, s, c, log) ==
    IF Len(s) = 0 THEN Applied(p, s, c, log, TRUE, "none")
    ELSE Applied(s[Len(s)], SubSeq(s, 1, Len(s) - 1), c, log, TRUE, "none")

\* mutant: a pop restores x and y and keeps the current heading
popPositionKeepsHeading(p, s, c, log) ==
    IF Len(s) = 0 THEN Applied(p, s, c, log, FALSE, "underflow")
    ELSE Applied([s[Len(s)] EXCEPT !.angle = p.angle],
                 SubSeq(s, 1, Len(s) - 1), c, log, TRUE, "none")

popPositionApply(p, s, c, log) ==
    IF Len(s) = 0 THEN Applied(p, s, c, log, FALSE, "underflow")
    ELSE Applied(s[Len(s)], SubSeq(s, 1, Len(s) - 1), c, log, TRUE, "none")

\* turtleInstruction.apply: the dispatch on the instruction's type
apply(n, p, s, c, log) ==
    CASE n.op = "MoveForward" -> moveForwardApply(p, s, c, log, n.a)
      [] n.op = "Turn" -> turnApply(p, s, c, log, n.a)
      [] n.op = "SetStyle" -> setStyleApply(p, s, c, log, n.a)
      [] n.op = "MoveArc" -> moveArcApply(p, s, c, log, n.a, n.b)
      [] n.op = "PushPosition" -> pushPositionApply(p, s, c, log)
      [] n.op = "PopPosition" -> popPositionApply(p, s, c, log)

-----------------------------------------------------------------------------
(* The Turtle. *)

NoError == [index |-> 0, total |-> 0, kind |-> "none"]

\* mutant: the error carries the 0-based loop index
renderErrorZeroBased(i, total, kind) ==
    [index |-> i, total |-> total, kind |-> kind]

\* the error RenderToCanvas wraps around a failing instruction's error; i is
\* the 0-based loop index
renderError(i, total, kind) == [index |-> i + 1, total |-> total, kind |-> kind]

\* mutant: the position is reset and the stack is not
renderResetKeepsStack(p, s) == [position |-> ZeroPosition, positionStack |-> s]

\* the state RenderToCanvas resets the turtle to
renderReset(p, s) == [position |-> ZeroPosition, positionStack |-> <<>>]

Snapshot(p, s) == [position |-> p, positionStack |-> s]

NewArgs(pixelsWide, pixelsTall, minX, minY, maxX, maxY) ==
    [pixelsWide |-> pixelsWide, pixelsTall |-> pixelsTall, minX |-> minX,
     minY |-> minY, maxX |-> maxX, maxY |-> maxY]

Init ==
    /\ line = IdleLine
    /\ rgba = NilCanvas
    /\ newArgs = NewArgs(0, 0, 0, 0, 0, 0)
    /\ plots = <<>>
    /\ draws = 0
    /\ instructions = <<>>
    /\ position = ZeroPosition
    /\ positionStack = <<>>
    /\ pc = "idle"
    /\ idx = 1
    /\ canvas = NewDummyCanvas
    /\ calls = <<>>
    /\ err = NoError
    /\ entry = Snapshot(ZeroPosition, <<>>)
    /\ trace = <<>>

\* the builder methods: each appends one instruction to the list; the caller
\* is not inside RenderToCanvas
CanAdd == pc # "running" /\ Len(instructions) < MaxInstr

BuilderLeaves ==
    UNCHANGED <<position, positionStack, idx, canvas, calls, err, entry,
                trace, rgbaVars, lineVars>>

MoveForward ==
    /\ CanAdd
    /\ \E d \in Distances :
          instructions' = Append(instructions, Instr("MoveForward", d, 0))
    /\ pc' = "idle"
    /\ BuilderLeaves

Turn ==
    /\ CanAdd
    /\ \E d \in TurnDegrees :
          instructions' = Append(instructions, Instr("Turn", d, 0))
    /\ pc' = "idle"
    /\ BuilderLeaves

SetStyle ==
    /\ CanAdd
    /\ \E st \in TurtleStyles :
          instructions' = Append(instructions, Instr("SetStyle", st, 0))
    /\ pc' = "idle"
    /\ BuilderLeaves

MoveArc ==
    /\ CanAdd
    /\ \E arc \in Arcs :
          instructions' = Append(instructions,
                                 Instr("MoveArc", arc[1], arc[2]))
    /\ pc' = "idle"
    /\ BuilderLeaves

PushPosition ==
    /\ CanAdd
    /\ instructions' = Append(instructions, Instr("PushPosition", 0, 0))
    /\ pc' = "idle"
    /\ BuilderLeaves

PopPosition ==
    /\ CanAdd
    /\ instructions' = Append(instructions, Instr("PopPosition", 0, 0))
    /\ pc' = "idle"
    /\ BuilderLeaves

\* RenderToCanvas, entry: the reset before the loop
RenderToCanvas ==
    /\ pc # "running"
    /\ \E c \in Canvases : canvas' = c
    /\ LET r == renderReset(position, positionStack)
       IN /\ position' = r.position
          /\ positionStack' = r.positionStack
          /\ trace' = <<Snapshot(r.position, r.positionStack)>>
    /\ entry' = Snapshot(position, positionStack)
    /\ idx' = 1
    /\ calls' = <<>>
    /\ err' = NoError
    /\ pc' = "running"
    /\ UNCHANGED <<instructions, rgbaVars, lineVars>>

\* RenderToCanvas, one iteration of the loop
RenderStep ==
    /\ pc = "running"
    /\ idx <= Len(instructions)
    /\ \E r \in {apply(instructions[idx], position, positionStack, canvas,
                      calls)} :
          /\ position' = r.position
          /\ positionStack' = r.positionStack
          /\ calls' = r.calls
          /\ canvas' = r.canvas
          /\ IF r.ok
             THEN /\ idx' = idx + 1
                  /\ trace' = Append(trace,
                                     Snapshot(r.position, r.positionStack))
                  /\ UNCHANGED <<pc, err>>
             ELSE /\ pc' = "returned"
                  /\ err' = renderError(idx - 1, Len(instructions), r.kind)
                  /\ UNCHANGED <<idx, trace>>
    /\ UNCHANGED <<instructions, entry, rgbaVars, lineVars>>

\* RenderToCanvas, the loop is over: return nil
RenderReturn ==
    /\ pc = "running"
    /\ idx > Len(instructions)
    /\ pc' = "returned"
    /\ err' = NoError
    /\ UNCHANGED <<instructions, position, positionStack, idx, canvas, calls,
                   entry, trace, rgbaVars, lineVars>>

Next ==
    \/ MoveForward
    \/ Turn
    \/ SetStyle
    \/ MoveArc
    \/ PushPosition
    \/ PopPosition
    \/ RenderToCanvas
    \/ RenderStep
    \/ RenderReturn

Spec == Init /\ [][Next]_vars

-----------------------------------------------------------------------------
(* An RGBACanvas used on its own. *)

\* NewRGBACanvas, called until it returns a canvas
CallNewRGBACanvas ==
    /\ ~rgba.ok
    /\ \E w \in PixelCounts, h \in PixelCounts, x0 \in RectMins, y0 \in RectMins,
          x1 \in RectMaxs, y1 \in RectMaxs, bg \in Backgrounds :
          /\ rgba' = NewRGBACanvas(w, h, x0, y0, x1, y1, bg)
          /\ newArgs' = NewArgs(w, h, x0, y0, x1, y1)
          /\ plots' = <<>>
          /\ draws' = 0
          /\ UNCHANGED <<turtleVars, lineVars>>

CallSetStyle ==
    /\ rgba.ok
    /\ \E st \in Styles : rgba' = RGBASetStyle(rgba, st)
    /\ UNCHANGED <<newArgs, plots, draws, turtleVars, lineVars>>

CallDrawLine ==
    /\ rgba.ok
    /\ draws < MaxDraws
    /\ \E x \in DrawCoords, y \in DrawCoords, angle \in LineAngles,
          length \in LineLengths :
          \E r \in {RGBADrawLine(rgba, x, y, angle, length)} :
             /\ rgba' = r.canvas
             /\ plots' = r.plots
    /\ draws' = draws + 1
    /\ UNCHANGED <<newArgs, turtleVars, lineVars>>

CallDrawArc ==
    /\ rgba.ok
    /\ draws < MaxDraws
    /\ \E x \in DrawCoords, y \in DrawCoords, angle \in ArcAngles,
          radius \in ArcRadii, degrees \in ArcDegrees :
          \E r \in {RGBADrawArc(rgba, x, y, angle, radius, degrees)} :
             /\ rgba' = r.canvas
             /\ plots' = r.plots
    /\ draws' = draws + 1
    /\ UNCHANGED <<newArgs, turtleVars, lineVars>>

NextCanvas ==
    \/ CallNewRGBACanvas
    \/ CallSetStyle
    \/ CallDrawLine
    \/ CallDrawArc

SpecCanvas == Init /\ [][NextCanvas]_vars

-----------------------------------------------------------------------------
(* A DummyCanvas and an RGBACanvas given the same draw calls, as the two     *)
(* passes of renderTurtle give them.                                         *)

BoxLeaves ==
    UNCHANGED <<instructions, position, positionStack, pc, idx, err, entry,
                trace, lineVars>>

BoxNewRGBACanvas ==
    /\ ~rgba.ok
    /\ \E w \in BoxPixels, h \in BoxPixels, x1 \in BoxRectMaxs,
          y1 \in BoxRectMaxs :
          /\ rgba' = NewRGBACanvas(w, h, 0, 0, x1, y1, White)
          /\ newArgs' = NewArgs(w, h, 0, 0, x1, y1)
    /\ UNCHANGED <<plots, draws, canvas, calls>>
    /\ BoxLeaves

BoxDrawLine ==
    /\ rgba.ok
    /\ draws < MaxBoxCalls
    /\ \E at \in BoxStarts, angle \in LineAngles, length \in LineLengths :
          \E r \in {RGBADrawLine(rgba, at[1], at[2], angle, length)} :
             /\ rgba' = r.canvas
             /\ plots' = r.plots
             /\ canvas' = DummyDrawLine(canvas, at[1], at[2], angle, length)
             /\ calls' = Append(calls,
                                Call("DrawLine",
                                     [x |-> at[1], y |-> at[2], angle |-> angle],
                                     length, 0))
    /\ draws' = draws + 1
    /\ UNCHANGED newArgs
    /\ BoxLeaves

BoxDrawArc ==
    /\ rgba.ok
    /\ draws < MaxBoxCalls
    /\ \E at \in BoxStarts, angle \in ArcAngles, radius \in BoxArcRadii,
          degrees \in BoxArcDegrees :
          \E r \in {RGBADrawArc(rgba, at[1], at[2], angle, radius, degrees)} :
             /\ rgba' = r.canvas
             /\ plots' = r.plots
             /\ canvas' = DummyDrawArc(canvas, at[1], at[2], angle, radius,
                                       degrees)
             /\ calls' = Append(calls,
                                Call("DrawArc",
                                     [x |-> at[1], y |-> at[2], angle |-> angle],
                                     radius, degrees))
    /\ draws' = draws + 1
    /\ UNCHANGED newArgs
    /\ BoxLeaves

NextBox ==
    \/ BoxNewRGBACanvas
    \/ BoxDrawLine
    \/ BoxDrawArc

SpecBox == Init /\ [][NextBox]_vars

-----------------------------------------------------------------------------
(* drawLine on its own, one turn of its loop at a time. *)

LineCoords == (-MaxCoord) .. MaxCoord

CallDrawLineRoutine ==
    /\ line.pc = "idle"
    /\ \E x0 \in LineCoords, y0 \in LineCoords, x1 \in LineCoords,
          y1 \in LineCoords :
          line' = drawLineEnter(x0, y0, x1, y1, IdleLine.pic, Black)
    /\ UNCHANGED <<turtleVars, rgbaVars>>

DrawLineLoop ==
    /\ line.pc = "loop"
    /\ line' = drawLineLoop(line)
    /\ UNCHANGED <<turtleVars, rgbaVars>>

\* drawLine returns: its locals are gone
DrawLineReturn ==
    /\ line.pc = "done"
    /\ line' = IdleLine
    /\ UNCHANGED <<turtleVars, rgbaVars>>

NextLine ==
    \/ CallDrawLineRoutine
    \/ DrawLineLoop
    \/ DrawLineReturn

\* the loop is sequential code: once entered, it keeps running
SpecLine == Init /\ [][NextLine]_vars /\ WF_vars(DrawLineLoop)

-----------------------------------------------------------------------------
(* What a replay of a whole instruction list must produce, computed from    *)
(* the pose (0,0,0) and the empty stack.                                    *)

RECURSIVE ReplayFrom(_, _, _, _, _, _)
ReplayFrom(instrs, k, p, s, c, log) ==
    IF k > Len(instrs)
    THEN [position |-> p, positionStack |-> s, canvas |-> c, calls |-> log,
          err |-> NoError]
    ELSE LET r == apply(instrs[k], p, s, c, log)
         IN IF r.ok
            THEN ReplayFrom(instrs, k + 1, r.position, r.positionStack,
                            r.canvas, r.calls)
            ELSE [position |-> r.position, positionStack |-> r.positionStack,
                  canvas |-> r.canvas, calls |-> r.calls,
                  err |-> [index |-> k, total |-> Len(instrs),
                           kind |-> r.kind]]

Replay(instrs, c) == ReplayFrom(instrs, 1, ZeroPosition, <<>>, c, <<>>)

\* the canvas as it was when it was passed to RenderToCanvas
AsPassed(c) == IF c.kind = "dummy" THEN NewDummyCanvas ELSE c

Outcome ==
    [position |-> position, positionStack |-> positionStack,
     canvas |-> canvas, calls |-> calls, err |-> err]

\* the instruction the loop of RenderToCanvas is about to apply
AtInstruction(op) ==
    /\ pc = "running"
    /\ idx <= Len(instructions)
    /\ instructions[idx].op = op

\* this step is an iteration of the loop of RenderToCanvas
Stepped == pc = "running" /\ (idx' = idx + 1 \/ pc' = "returned")

IsCanvasOp(op) == op \in {"MoveForward", "MoveArc", "SetStyle"}

\* the instructions k of the current replay that were applied without error
AppliedIndexes == 1 .. (Len(trace) - 1)

-----------------------------------------------------------------------------
\* C1: RenderToCanvas starts from pose (0,0,0) and an empty stack whatever an
\* earlier replay left behind; what it returns with (canvas calls, final pose,
\* stack, error) is a function of the instruction list and the canvas alone,
\* and it never changes the instruction list.
C1_ReplayIsAFunctionOfTheList ==
    /\ [](pc = "running" /\ idx = 1 =>
            position = ZeroPosition /\ positionStack = <<>>)
    /\ [](pc = "returned" => Outcome = Replay(instructions, AsPassed(canvas)))
    /\ [][pc = "running" => instructions' = instructions]_vars

\* a replay that found unpopped pushes and a moved turtle on entry, drew
\* something and returned
C1_Witness ==
    /\ pc = "returned"
    /\ entry.positionStack # <<>>
    /\ entry.position # ZeroPosition
    /\ calls # <<>>

\* C2: a failing instruction ends the replay at once: the instructions before
\* it were applied in order, the error carries its 1-based index and the
\* length of the list, nothing is applied and no canvas call is issued after
\* it, and the canvas calls made before it stand.
C2_ReplayStopsAtFirstFailure ==
    /\ [](pc = "returned" /\ err # NoError =>
            /\ err.index = idx
            /\ err.index = Len(trace)
            /\ err.total = Len(instructions)
            /\ LET before == Replay(SubSeq(instructions, 1, err.index - 1),
                                    NewDummyCanvas)
                   failing == instructions[err.index]
               IN /\ before.err = NoError
                  /\ position = before.position
                  /\ positionStack = before.positionStack
                  /\ IF IsCanvasOp(failing.op)
                     THEN /\ err.kind = "canvas"
                          /\ SubSeq(calls, 1, Len(calls) - 1) = before.calls
                          /\ canvas.failAt = Len(calls)
                     ELSE /\ err.kind = "underflow"
                          /\ failing.op = "PopPosition"
                          /\ calls = before.calls)
    /\ [][pc = "returned" /\ pc' # "running" =>
            /\ calls' = calls
            /\ position' = position
            /\ positionStack' = positionStack
            /\ err' = err]_vars

\* a replay that failed at its third instruction, after two canvas calls
C2_Witness ==
    /\ pc = "returned"
    /\ err.index = 3
    /\ err.total = 3
    /\ Len(calls) >= 2

\* C3: PopPosition on an empty stack returns an error and leaves position,
\* heading and stack as they were.
C3_PopOnEmptyStackFails ==
    [][AtInstruction("PopPosition") /\ positionStack = <<>> /\ Stepped =>
          /\ pc' = "returned"
          /\ err' # NoError
          /\ err'.kind = "underflow"
          /\ position' = position
          /\ positionStack' = positionStack]_vars

\* a pop that failed after as many pops as pushes, with the turtle away from
\* the origin
C3_Witness ==
    /\ pc = "returned"
    /\ err.kind = "underflow"
    /\ err.index > 1
    /\ position # ZeroPosition

\* the push that the pop at index j undoes: the nearest push before j with as
\* many pushes as pops in between (0 when there is none)
RECURSIVE MatchingPushFrom(_, _, _)
MatchingPushFrom(instrs, k, depth) ==
    IF k = 0 THEN 0
    ELSE IF instrs[k].op = "PopPosition"
         THEN MatchingPushFrom(instrs, k - 1, depth + 1)
         ELSE IF instrs[k].op = "PushPosition"
              THEN IF depth = 0 THEN k
                   ELSE MatchingPushFrom(instrs, k - 1, depth - 1)
              ELSE MatchingPushFrom(instrs, k - 1, depth)

MatchingPush(instrs, j) == MatchingPushFrom(instrs, j - 1, 0)

C5_OneDrawCallWithThePreMovePose ==
    [][Stepped /\ idx <= Len(instructions) =>
          LET n == instructions[idx]
              pre == trace[Len(trace)].position
          IN /\ position = pre
             /\ n.op = "MoveForward" =>
                   /\ calls' = Append(calls, Call("DrawLine", pre, n.a, 0))
                   /\ (pc' = "returned" => position' = position)
             /\ n.op = "MoveArc" =>
                   /\ calls' = Append(calls, Call("DrawArc", pre, n.a, n.b))
                   /\ (pc' = "returned" => position' = position)
             /\ n.op = "SetStyle" =>
                   /\ Len(calls') = Len(calls) + 1
                   /\ SubSeq(calls', 1, Len(calls)) = calls
                   /\ calls'[Len(calls')].op = "SetStyle"
                   /\ calls'[Len(calls')].a = n.a
                   /\ position' = position
                   /\ positionStack' = positionStack
             /\ n.op \in {"Turn", "PushPosition", "PopPosition"} =>
                   calls' = calls]_vars

\* a draw call issued from a pose other than the origin, and one that failed
C5_Witness ==
    /\ pc = "returned"
    /\ err.kind = "canvas"
    /\ Len(calls) = 2
    /\ calls[2].op \in {"DrawLine", "DrawArc"}
    /\ <<calls[2].x, calls[2].y>> # <<0, 0>>
    /\ calls[2].angle # 0

\* the arguments NewRGBACanvas rejects
BadArgs(a) ==
    \/ a.pixelsWide <= 0
    \/ a.pixelsTall <= 0
    \/ a.maxX <= a.minX
    \/ a.maxY <= a.minY

\* C6: NewRGBACanvas returns an error and no canvas exactly when pixelsWide <=
\* 0, pixelsTall <= 0, maxX <= minX or maxY <= minY; a canvas it did return
\* has positive pixel sizes and positive scale factors dX = (maxX - minX) /
\* pixelsWide and dY = (maxY - minY) / pixelsTall.
C6_ConstructorValidates ==
    /\ rgba.ok = ~BadArgs(newArgs)
    /\ ~rgba.ok => rgba = NilCanvas
    /\ rgba.ok =>
          /\ rgba.pixelsWide = newArgs.pixelsWide
          /\ rgba.pixelsTall = newArgs.pixelsTall
          /\ rgba.pixelsWide > 0
          /\ rgba.pixelsTall > 0
          /\ rgba.dX = <<newArgs.maxX - newArgs.minX, newArgs.pixelsWide>>
          /\ rgba.dY = <<newArgs.maxY - newArgs.minY, newArgs.pixelsTall>>
          /\ FracPositive(rgba.dX)
          /\ FracPositive(rgba.dY)

\* a call that was rejected for its rectangle alone: positive pixel sizes, a
\* proper x range and an empty y range
C6_Witness ==
    /\ ~rgba.ok
    /\ newArgs.pixelsWide > 0
    /\ newArgs.pixelsTall > 0
    /\ newArgs.maxX > newArgs.minX
    /\ newArgs.maxY = newArgs.minY

\* the point lies outside the rectangle the canvas was made for
OutsideCanvas(c, x, y) ==
    x < c.minX \/ x > c.maxX \/ y < c.minY \/ y > c.maxY

\* C9: a point outside [minX, maxX] x [minY, maxY] that DrawLine takes as an end
\* point or DrawArc as a sample colours no pixel of the buffer: its pixel
\* index lies outside the buffer.
C9_OutsidePointsColourNoPixel ==
    \A i \in DOMAIN plots :
        OutsideCanvas(rgba, plots[i].x, plots[i].y) =>
            <<plots[i].px, plots[i].py>> \notin DOMAIN rgba.pic

\* the raw box of a DummyCanvas has a positive span in both axes
PositiveSpans(c) ==
    c.kind = "dummy" /\ c.initialized /\ c.maxX > c.minX /\ c.maxY > c.minY

\* points of [lo, hi]: both ends, and every quarter unit from lo
BoxPoints(lo, hi) ==
    {hi} \cup {lo + k * (Milli \div 4) : k \in 0 .. ((4 * (hi - lo)) \div Milli)}

\* C10: GetExtents returns the accumulated box widened on every side by 0.1% of
\* that axis's span, and an RGBACanvas of any positive pixel size made for the
\* returned rectangle maps every point of the raw box, its edges and corners
\* included, to a pixel of the buffer.  GetExtents is asked when the replay on
\* the DummyCanvas has returned, as renderTurtle does.
C10_ExtentsKeepTheBoxInTheBuffer ==
    (pc = "returned" /\ PositiveSpans(canvas)) =>
        LET e == GetExtents(canvas)
        IN /\ Milli * canvas.minX - e.minX = canvas.maxX - canvas.minX
           /\ e.maxX - Milli * canvas.maxX = canvas.maxX - canvas.minX
           /\ Milli * canvas.minY - e.minY = canvas.maxY - canvas.minY
           /\ e.maxY - Milli * canvas.maxY = canvas.maxY - canvas.minY
           /\ \A w \in PixelSizes, h \in PixelSizes :
                 LET c == NewRGBACanvas(w, h, e.minX, e.minY, e.maxX, e.maxY,
                                        White)
                 IN /\ c.ok
                    /\ \A x \in BoxPoints(canvas.minX, canvas.maxX) :
                          PointToPixel(c, Milli * x, Milli * canvas.minY)[1]
                              \in 0 .. (w - 1)
                    /\ \A y \in BoxPoints(canvas.minY, canvas.maxY) :
                          PointToPixel(c, Milli * canvas.minX, Milli * y)[2]
                              \in 0 .. (h - 1)

\* a finished replay on a DummyCanvas whose box has positive spans and reaches
\* below zero in x
C10_Witness ==
    /\ pc = "returned"
    /\ err = NoError
    /\ PositiveSpans(canvas)
    /\ canvas.minX < 0
    /\ canvas.maxY > 0

\* C7: two turns in a row leave the heading congruent modulo 360 to that of
\* one turn by the sum, and neither changes x, y or the stack.
C7_TurnsAdd ==
    \A k \in AppliedIndexes :
        (k + 1 \in AppliedIndexes /\ instructions[k].op = "Turn"
            /\ instructions[k + 1].op = "Turn") =>
            LET before == trace[k]
                mid == trace[k + 1]
                after == trace[k + 2]
                sum == turnApply(before.position, before.positionStack,
                                 canvas, <<>>,
                                 instructions[k].a + instructions[k + 1].a)
            IN /\ (after.position.angle - sum.position.angle) % FullTurn = 0
               /\ mid.position.x = before.position.x
               /\ mid.position.y = before.position.y
               /\ mid.positionStack = before.positionStack
               /\ after.position.x = before.position.x
               /\ after.position.y = before.position.y
               /\ after.positionStack = before.positionStack

\* two turns whose headings differ from the heading of the one summed turn,
\* taken away from the origin with something on the stack
C7_Witness ==
    \E k \in AppliedIndexes :
        /\ k + 1 \in AppliedIndexes
        /\ instructions[k].op = "Turn"
        /\ instructions[k + 1].op = "Turn"
        /\ trace[k + 2].position.angle #
              GoMod(trace[k].position.angle + instructions[k].a
                        + instructions[k + 1].a, FullTurn)

\* C8 as stated: MoveArc(r, 360) leaves position and heading as they were.
C8_FullCircleRestoresPose ==
    \A k \in AppliedIndexes :
        (instructions[k].op = "MoveArc" /\ instructions[k].b = FullTurn) =>
            trace[k + 1].position = trace[k].position

\* C8, amended: MoveArc(r, 360) leaves x and y as they were and the heading
\* congruent to the old one modulo 360; the heading is the old one exactly
\* when the old one is not negative, and the old one plus 360 when it is.
C8_FullCircleRestoresPoseModulo360 ==
    \A k \in AppliedIndexes :
        (instructions[k].op = "MoveArc" /\ instructions[k].b = FullTurn) =>
            LET old == trace[k].position
                new == trace[k + 1].position
            IN /\ new.x = old.x
               /\ new.y = old.y
               /\ new.angle =
                     IF old.angle >= 0 THEN old.angle
                     ELSE old.angle + FullTurn

\* full circles of either sign of radius, one taken with a negative heading
\* away from the origin
C8_Witness ==
    \E k \in AppliedIndexes :
        /\ instructions[k].op = "MoveArc"
        /\ instructions[k].b = FullTurn
        /\ trace[k].position.angle < 0
        /\ trace[k].position.x # 0
        /\ trace[k + 1].position.angle = trace[k].position.angle + FullTurn

\* the points a DummyCanvas observes in one call: a line's start and end, and
\* the four extreme points of an arc's full circle
PointsOfCall(c) ==
    IF c.op = "DrawLine"
    THEN {<<c.x, c.y>>, moveDegrees(c.x, c.y, c.angle, c.a)}
    ELSE IF c.op = "DrawArc"
         THEN LET center == moveDegrees(c.x, c.y, c.angle + QuarterTurn, c.a)
              IN {<<center[1], center[2] + c.a>>, <<center[1], center[2] - c.a>>,
                  <<center[1] + c.a, center[2]>>, <<center[1] - c.a, center[2]>>}
         ELSE {}

ObservedPoints(log) == UNION {PointsOfCall(log[i]) : i \in DOMAIN log}

Least(S) == CHOOSE m \in S : \A n \in S : m <= n

Greatest(S) == CHOOSE m \in S : \A n \in S : m >= n

InBox(c, x, y) ==
    c.minX <= x /\ x <= c.maxX /\ c.minY <= y /\ y <= c.maxY

\* C11: after any sequence of DrawLine and DrawArc calls the box of a
\* DummyCanvas is the smallest axis-aligned box holding every observed point
\* (line starts and ends, the four extreme points of each arc's circle) and
\* nothing else, the origin included only if observed; the box never shrinks;
\* and every point RGBACanvas.DrawArc or DrawLine converts for the same call
\* lies inside the box.
C11_BoxIsTheHullOfObservedPoints ==
    /\ [](LET pts == ObservedPoints(calls)
          IN /\ canvas.initialized = (pts # {})
             /\ pts # {} =>
                   /\ canvas.minX = Least({p[1] : p \in pts})
                   /\ canvas.maxX = Greatest({p[1] : p \in pts})
                   /\ canvas.minY = Least({p[2] : p \in pts})
                   /\ canvas.maxY = Greatest({p[2] : p \in pts})
             /\ \A i \in DOMAIN plots :
                   InBox(canvas, plots[i].x, plots[i].y))
    /\ [][canvas.initialized =>
             /\ canvas'.initialized
             /\ canvas'.minX <= canvas.minX
             /\ canvas'.maxX >= canvas.maxX
             /\ canvas'.minY <= canvas.minY
             /\ canvas'.maxY >= canvas.maxY]_vars

\* a box that lies below and left of the origin after a line and an arc of
\* negative radius, with a sample of the arc on the box's edge
C11_Witness ==
    /\ Len(calls) = 2
    /\ calls[1].op = "DrawLine"
    /\ calls[2].op = "DrawArc"
    /\ calls[2].a < 0
    /\ canvas.maxX < 0
    /\ canvas.maxY < 0
    /\ \E i \in DOMAIN plots : i > 1 /\ plots[i].y = canvas.minY

Larger(a, b) == IF a >= b THEN a ELSE b

Smaller(a, b) == IF a <= b THEN a ELSE b

\* the pixel lies in the rectangle spanned by the two end points of the call
InSpan(l, px) ==
    /\ Smaller(l.fromX, l.x1) <= px[1] /\ px[1] <= Larger(l.fromX, l.x1)
    /\ Smaller(l.fromY, l.y1) <= px[2] /\ px[2] <= Larger(l.fromY, l.y1)

\* from pixel p to pixel q: one pixel toward the end point along the driving
\* axis, at most one along the other
OneStep(l, p, q) ==
    /\ l.dx >= l.dy => q[1] = p[1] + l.sx
    /\ l.dy >= l.dx => q[2] = p[2] + l.sy
    /\ q[1] - p[1] \in {0, l.sx}
    /\ q[2] - p[2] \in {0, l.sy}

\* C12: drawLine terminates for every pair of integer end points, coincident,
\* horizontal, vertical, diagonal and outside the picture included.  It plots
\* the start pixel first and the end pixel last, moves exactly one pixel along
\* the driving axis per step and at most one along the other, and so plots
\* exactly max(|dx|, |dy|) + 1 pixels, all in the rectangle spanned by the end
\* points; the pixels of the picture among them, and no others, are coloured.
C12_DrawLineTerminatesOnTheSpan ==
    /\ [](line.pc # "idle" =>
            /\ Len(line.pixels) <= Larger(line.dx, line.dy) + 1
            /\ line.pixels # <<>> => line.pixels[1] = <<line.fromX, line.fromY>>
            /\ \A i \in DOMAIN line.pixels : InSpan(line, line.pixels[i])
            /\ \A i \in 1 .. (Len(line.pixels) - 1) :
                  OneStep(line, line.pixels[i], line.pixels[i + 1])
            /\ \A px \in DOMAIN line.pic :
                  (line.pic[px] = line.style)
                      = (\E i \in DOMAIN line.pixels : line.pixels[i] = px)
            /\ line.pc = "done" =>
                  /\ Len(line.pixels) = Larger(line.dx, line.dy) + 1
                  /\ line.pixels[Len(line.pixels)] = <<line.x1, line.y1>>
                  /\ line.pixels
                        = drawLine(line.fromX, line.fromY, line.x1, line.y1,
                                   IdleLine.pic, line.style).pixels
                  /\ line.pic
                        = drawLine(line.fromX, line.fromY, line.x1, line.y1,
                                   IdleLine.pic, line.style).pic)
    /\ (line.pc = "loop") ~> (line.pc = "done")

\* a finished line that is neither axis-parallel nor diagonal, runs down and
\* to the left, and starts outside the picture and ends inside it
C12_Witness ==
    /\ line.pc = "done"
    /\ line.dx = 2 * line.dy
    /\ line.dy > 0
    /\ line.sx = -1
    /\ line.sy = -1
    /\ <<line.fromX, line.fromY>> \notin DOMAIN line.pic
    /\ <<line.x1, line.y1>> \in DOMAIN line.pic

\* the last call the two canvases were given
LastCall == calls[Len(calls)]

\* degrees brought into [0, 360]: a negative d becomes 360 - d, what is then
\* above 360 becomes 360
Normalized(d) == Smaller(IF d < 0 THEN FullTurn - d ELSE d, FullTurn)

\* C13: RGBACanvas.DrawArc brings degrees into [0, 360] (a negative d folded to
\* 360 - d, anything above 360 clamped to 360, values in [0, 360] unchanged)
\* and then plots exactly sampleCount samples, at (angle - 90) + i *
\* (normalized degrees / sampleCount) for i = 0 .. sampleCount - 1 around the
\* centre, the first of them the turtle's own position; sampleCount is a
\* multiple of 7 and at least 7.
C13_ArcSamplesAreUniform ==
    (rgba.ok /\ calls # <<>> /\ LastCall.op = "DrawArc") =>
        LET n == Len(plots)
            deg == Normalized(LastCall.b)
            center == moveDegrees(LastCall.x, LastCall.y,
                                  LastCall.angle + QuarterTurn, LastCall.a)
        IN /\ deg \in 0 .. FullTurn
           /\ LastCall.b \in 0 .. FullTurn => deg = LastCall.b
           /\ n >= 7
           /\ n = 7 * Larger(TruncDiv(Abs(LastCall.a) * rgba.dX[2], rgba.dX[1]),
                             TruncDiv(Abs(LastCall.a) * rgba.dY[2], rgba.dY[1]))
                  + 7
           /\ <<plots[1].x, plots[1].y>> = <<LastCall.x, LastCall.y>>
           /\ \A i \in 0 .. (n - 1) :
                 /\ <<plots[i + 1].x, plots[i + 1].y>>
                       = moveDegreesFrac(center[1], center[2],
                                         (LastCall.angle - QuarterTurn) * n
                                             + i * deg, n, LastCall.a)
                 /\ <<plots[i + 1].px, plots[i + 1].py>>
                       = PointToPixel(rgba, plots[i + 1].x, plots[i + 1].y)
                 /\ <<plots[i + 1].px, plots[i + 1].py>> \in DOMAIN rgba.pic =>
                       rgba.pic[<<plots[i + 1].px, plots[i + 1].py>>]
                           = rgba.style

\* an arc of -90 degrees, drawn as a full circle of 14 samples of which the
\* eighth lies opposite the turtle, after an earlier call
C13_Witness ==
    /\ rgba.ok
    /\ Len(calls) = 2
    /\ LastCall.op = "DrawArc"
    /\ LastCall.b = -90
    /\ Len(plots) = 14
    /\ plots[8].x = plots[1].x
    /\ plots[8].y = plots[1].y + 2 * LastCall.a
    /\ \E i \in DOMAIN plots : <<plots[i].px, plots[i].py>> \in DOMAIN rgba.pic

\* the replay drew at least one line or arc of nonzero size
DrewSomething ==
    \E i \in DOMAIN calls :
        calls[i].op \in {"DrawLine", "DrawArc"} /\ calls[i].a # 0

\* C14: for every instruction list that draws a line or arc of nonzero size,
\* horizontal-only and vertical-only drawings included, the rectangle
\* GetExtents returns after the replay on a fresh DummyCanvas has minX < maxX
\* and minY < maxY, and NewRGBACanvas accepts it with any positive pixel
\* sizes.
C14_ExtentsAlwaysMakeACanvas ==
    (pc = "returned" /\ err = NoError /\ canvas.kind = "dummy"
        /\ DrewSomething) =>
        LET e == GetExtents(canvas)
        IN /\ e.minX < e.maxX
           /\ e.minY < e.maxY
           /\ \A w \in PixelSizes, h \in PixelSizes :
                 NewRGBACanvas(w, h, e.minX, e.minY, e.maxX, e.maxY, White).ok

=============================================================================
